---- MODULE Spec2Model ----
(***************************************************************************)
(* Circular dependency detection engine of monorepo-consistency.           *)
(*                                                                         *)
(*   src/src/domains/circular/inter-package.ts  detectInterPackageCycles   *)
(*   src/unnamed/part_011 (domains/circular/index.ts)  circularHandler     *)
(*                                                                         *)
(* Conventions.  A JavaScript array is a TLA+ sequence; JavaScript indices *)
(* are kept 0-based where the code computes with them (JsIndexOf, JsSlice) *)
(* so that -1 means "not found" exactly as in the source.  A dependency    *)
(* map (Record<string,string>) is the sequence of its [key, value] entries *)
(* in insertion order, which is the order Object.entries yields.  A        *)
(* version specifier is the sequence of its characters, so that            *)
(* startsWith("workspace:") is a real prefix test.                         *)
(***************************************************************************)
EXTENDS Integers, Sequences, FiniteSets, TLC

VARIABLES
    packages,   \* PackageInfo[] handed to detectInterPackageCycles
    nameSet,    \* Set<string> of package names, in insertion order
    adj,        \* Map<string, string[]>: package name -> neighbours
    color,      \* Map<string, number>: WHITE / GRAY / BLACK
    path,       \* string[]: the traversal path stack
    cycles,     \* string[][]: the witness cycles found so far
    stack,      \* call stack of dfs: frames [node, i], i = next neighbour (1-based)
    outer,      \* position of the loop "for (const name of nameSet)" (1-based)
    dpc,        \* where detectInterPackageCycles is: idle / build / scan / done
    config,     \* the circular section of the configuration, or undefined
    options,    \* CircularCheckOptions of the call to check
    workspace,  \* workspace.packages as getWorkspaceInfo resolves it
    analyzerOut,\* what runDpdm / runMadge does for each package: throws or returns
    tasks,      \* the runIntraPackage calls handed to Promise.all, in order
    issues,     \* const issues: Issue[] of check
    result,     \* what check returned or threw
    pc,         \* where check is
    rawCycles,  \* the argument of a call deduplicateCycles(cycles)
    unique,     \* what that call returned
    interCalls  \* what check's inter-package branch called on the detector's cycles

dfsVars == <<packages, nameSet, adj, color, path, cycles, stack, outer, dpc>>

dedupVars == <<rawCycles, unique>>

traceVars == <<interCalls>>

checkVars == <<config, options, workspace, analyzerOut, tasks, issues, result, pc,
               rawCycles, unique, interCalls>>

vars == <<packages, nameSet, adj, color, path, cycles, stack, outer, dpc,
          config, options, workspace, analyzerOut, tasks, issues, result, pc,
          rawCycles, unique, interCalls>>

(***************************************************************************)
(* Bounds of the model.                                                    *)
(***************************************************************************)
MaxDeps == 2        \* entries of one dependency map in the enumerated inputs
MaxPkgs == 3        \* packages of one enumerated workspace

(***************************************************************************)
(* JavaScript array helpers.                                               *)
(***************************************************************************)
Range(s) == {s[i] : i \in DOMAIN s}

Last(s) == s[Len(s)]

Front(s) == SubSeq(s, 1, Len(s) - 1)

\* Array.prototype.indexOf: 0-based position of the first occurrence, or -1.
JsIndexOf(s, x) ==
    IF \E i \in DOMAIN s : s[i] = x
    THEN (CHOOSE i \in DOMAIN s : s[i] = x /\ \A j \in 1..(i - 1) : s[j] # x) - 1
    ELSE -1

\* Array.prototype.slice(start): a negative start counts from the end.
JsSlice(s, start) ==
    LET from == IF start >= 0 THEN start
                ELSE IF Len(s) + start > 0 THEN Len(s) + start ELSE 0
    IN  SubSeq(s, from + 1, Len(s))

\* String.prototype.startsWith on character sequences.
StartsWith(s, prefix) ==
    /\ Len(s) >= Len(prefix)
    /\ SubSeq(s, 1, Len(prefix)) = prefix

(***************************************************************************)
(* Version specifiers.                                                     *)
(***************************************************************************)
WorkspacePrefix == <<"w", "o", "r", "k", "s", "p", "a", "c", "e", ":">>

WsStar == WorkspacePrefix \o <<"*">>                  \* "workspace:*"
WsCaret == WorkspacePrefix \o <<"^">>                 \* "workspace:^"
Semver == <<"^", "1">>                                \* "^1"
NoColon == <<"w", "o", "r", "k", "s", "p", "a", "c", "e">>   \* "workspace"

(***************************************************************************)
(* Graph builder: inter-package.ts lines 11-32.                            *)
(***************************************************************************)
\* One step of an object spread { ...acc, ...m }: an existing key keeps its
\* position and takes the new value, a new key is appended.
RECURSIVE SpreadInto(_, _)
SpreadInto(acc, m) ==
    IF m = <<>> THEN acc
    ELSE LET e == Head(m)
             hit == {i \in DOMAIN acc : acc[i][1] = e[1]}
         IN  IF hit # {}
             THEN SpreadInto([i \in DOMAIN acc |->
                                 IF i \in hit THEN <<acc[i][1], e[2]>> ELSE acc[i]],
                             Tail(m))
             ELSE SpreadInto(Append(acc, e), Tail(m))

\* const allDeps = { ...pkg.dependencies, ...pkg.devDependencies }
AllDeps(pkg) == SpreadInto(SpreadInto(<<>>, pkg.dependencies), pkg.devDependencies)

\* if (version.startsWith("workspace:") && nameSet.has(dep))
IsWorkspaceEdge_NoProtocol(entry, names) == entry[1] \in names

IsWorkspaceEdge_NoKnownCheck(entry, names) == StartsWith(entry[2], WorkspacePrefix)

IsWorkspaceEdge(entry, names) ==
    /\ StartsWith(entry[2], WorkspacePrefix)
    /\ entry[1] \in names

RECURSIVE Neighbors(_, _)
Neighbors(entries, names) ==
    IF entries = <<>> THEN <<>>
    ELSE IF IsWorkspaceEdge(Head(entries), names)
         THEN <<Head(entries)[1]>> \o Neighbors(Tail(entries), names)
         ELSE Neighbors(Tail(entries), names)

\* new Set(packages.map(p => p.name)): first occurrences, in order.
RECURSIVE NameSetOf(_)
NameSetOf(pkgs) ==
    IF pkgs = <<>> THEN <<>>
    ELSE LET front == NameSetOf(Front(pkgs))
         IN  IF Last(pkgs).name \in Range(front) THEN front
             ELSE Append(front, Last(pkgs).name)

\* adj.set(pkg.name, neighbors) for each package in order: a later package of
\* the same name replaces the earlier entry.
AdjOf(pkgs) ==
    LET names == Range(NameSetOf(pkgs))
    IN  [n \in names |->
            LET i == CHOOSE i \in DOMAIN pkgs :
                        /\ pkgs[i].name = n
                        /\ \A j \in DOMAIN pkgs : pkgs[j].name = n => j <= i
            IN  Neighbors(AllDeps(pkgs[i]), names)]

WHITE == 0
GRAY == 1
BLACK == 2

BuildAdjacency ==
    /\ dpc = "build"
    /\ nameSet' = NameSetOf(packages)
    /\ adj' = AdjOf(packages)
    /\ color' = [n \in Range(NameSetOf(packages)) |-> WHITE]
    /\ cycles' = <<>>
    /\ path' = <<>>
    /\ stack' = <<>>
    /\ outer' = 1
    /\ dpc' = "scan"
    /\ UNCHANGED packages
    /\ UNCHANGED checkVars

(***************************************************************************)
(* Depth-first search: inter-package.ts lines 37-64.  The recursion of     *)
(* dfs is the explicit call stack `stack`.                                 *)
(***************************************************************************)
\* Lines 43-48: what a neighbour of colour c adds to `cycles`.
BackEdgeCycles_TwoColour(c, p, neighbor) ==
    IF c # WHITE THEN <<JsSlice(p, JsIndexOf(p, neighbor))>> ELSE <<>>

BackEdgeCycles_OffByOne(c, p, neighbor) ==
    IF c = GRAY /\ JsIndexOf(p, neighbor) # -1
    THEN <<JsSlice(p, JsIndexOf(p, neighbor) + 1)>>
    ELSE <<>>

BackEdgeCycles(c, p, neighbor) ==
    IF c = GRAY
    THEN LET cycleStart == JsIndexOf(p, neighbor)
         IN  IF cycleStart # -1 THEN <<JsSlice(p, cycleStart)>> ELSE <<>>
    ELSE <<>>

\* Lines 38-39 of a call dfs(node), pushed on top of the frames `below`.
Enter(node, below) ==
    /\ color' = [color EXCEPT ![node] = GRAY]
    /\ path' = Append(path, node)
    /\ stack' = Append(below, [node |-> node, i |-> 1])

\* Lines 58-62: the next name of nameSet is WHITE, dfs(name) is called.
OuterCall ==
    /\ dpc = "scan" /\ stack = <<>> /\ outer <= Len(nameSet)
    /\ color[nameSet[outer]] = WHITE
    /\ Enter(nameSet[outer], <<>>)
    /\ outer' = outer + 1
    /\ UNCHANGED <<packages, nameSet, adj, cycles, dpc>>
    /\ UNCHANGED checkVars

\* Lines 58-59: the next name of nameSet is already coloured.
OuterSkip ==
    /\ dpc = "scan" /\ stack = <<>> /\ outer <= Len(nameSet)
    /\ color[nameSet[outer]] # WHITE
    /\ outer' = outer + 1
    /\ UNCHANGED <<packages, nameSet, adj, color, path, cycles, stack, dpc>>
    /\ UNCHANGED checkVars

TopNeighbor == adj[Last(stack).node][Last(stack).i]

Advanced == [stack EXCEPT ![Len(stack)].i = @ + 1]

HasNeighbor ==
    /\ dpc = "scan" /\ stack # <<>>
    /\ Last(stack).i <= Len(adj[Last(stack).node])

\* Lines 41-48 and 52: a neighbour that is not WHITE; a GRAY one is a back edge.
DfsVisited ==
    /\ HasNeighbor
    /\ color[TopNeighbor] # WHITE
    /\ cycles' = cycles \o BackEdgeCycles(color[TopNeighbor], path, TopNeighbor)
    /\ stack' = Advanced
    /\ UNCHANGED <<packages, nameSet, adj, color, path, outer, dpc>>
    /\ UNCHANGED checkVars

\* Lines 49-51: a WHITE neighbour, dfs(neighbor) is called.
DfsDescend ==
    /\ HasNeighbor
    /\ color[TopNeighbor] = WHITE
    /\ cycles' = cycles \o BackEdgeCycles(color[TopNeighbor], path, TopNeighbor)
    /\ Enter(TopNeighbor, Advanced)
    /\ UNCHANGED <<packages, nameSet, adj, outer, dpc>>
    /\ UNCHANGED checkVars

\* Lines 54-55: all neighbours explored.
DfsReturn_PopOnly ==
    /\ dpc = "scan" /\ stack # <<>>
    /\ Last(stack).i > Len(adj[Last(stack).node])
    /\ path' = Front(path)
    /\ stack' = Front(stack)
    /\ UNCHANGED <<packages, nameSet, adj, color, cycles, outer, dpc>>
    /\ UNCHANGED checkVars

DfsReturn ==
    /\ dpc = "scan" /\ stack # <<>>
    /\ Last(stack).i > Len(adj[Last(stack).node])
    /\ path' = Front(path)
    /\ color' = [color EXCEPT ![Last(stack).node] = BLACK]
    /\ stack' = Front(stack)
    /\ UNCHANGED <<packages, nameSet, adj, cycles, outer, dpc>>
    /\ UNCHANGED checkVars

\* Line 64: return cycles.
DetectReturn ==
    /\ dpc = "scan" /\ stack = <<>> /\ outer > Len(nameSet)
    /\ dpc' = "done"
    /\ UNCHANGED <<packages, nameSet, adj, color, path, cycles, stack, outer>>
    /\ UNCHANGED checkVars

DetectNext ==
    \/ BuildAdjacency
    \/ OuterCall
    \/ OuterSkip
    \/ DfsVisited
    \/ DfsDescend
    \/ DfsReturn
    \/ DetectReturn

(***************************************************************************)
(* Strings of the intra-package side.  TLC neither splits nor orders       *)
(* strings, so the two facts the code uses about a string are tables over  *)
(* the strings of the model: its "/"-separated segments (what minimatch    *)
(* matches on) and its rank in JavaScript's string order (what `a < b`     *)
(* compares).                                                              *)
(***************************************************************************)
Undefined == "undefined"

Files == {"lib/c.ts", "src/a.ts", "src/b.ts"}

\* JavaScript's `<` on the file identifiers: UTF-16 code unit order.
StrRank(f) ==
    CASE f = "lib/c.ts" -> 1
      [] f = "src/a.ts" -> 2
      [] f = "src/b.ts" -> 3

StrLess(a, b) == StrRank(a) < StrRank(b)

\* The "/"-separated segments of a name, a file identifier or a glob.
Segments(s) ==
    CASE s = "lib/c.ts" -> <<"lib", "c.ts">>
      [] s = "src/a.ts" -> <<"src", "a.ts">>
      [] s = "src/b.ts" -> <<"src", "b.ts">>
      [] s = "src/*"    -> <<"src", "*">>
      [] s = "lib/*"    -> <<"lib", "*">>
      [] s = "**"       -> <<"**">>
      [] s = "**/c.ts"  -> <<"**", "c.ts">>
      [] s = "@p/a"     -> <<"@p", "a">>
      [] s = "@p/b"     -> <<"@p", "b">>
      [] s = "@p/*"     -> <<"@p", "*">>
      [] s = "@q/*"     -> <<"@q", "*">>
      [] OTHER          -> <<s>>

\* minimatch on segments: "**" spans any number of segments, "*" exactly one,
\* anything else is a literal segment.
RECURSIVE GlobMatch(_, _)
GlobMatch(segs, pat) ==
    IF pat = <<>> THEN segs = <<>>
    ELSE IF Head(pat) = "**"
         THEN \/ GlobMatch(segs, Tail(pat))
              \/ segs # <<>> /\ GlobMatch(Tail(segs), pat)
         ELSE /\ segs # <<>>
              /\ Head(pat) = "*" \/ Head(pat) = Head(segs)
              /\ GlobMatch(Tail(segs), Tail(pat))

minimatch(s, pattern) == GlobMatch(Segments(s), Segments(pattern))

(***************************************************************************)
(* Cycle normalisation and deduplication: part_011 lines 179-199.          *)
(***************************************************************************)
\* Array.prototype.join(sep), as the sequence of the joined pieces.
RECURSIVE Join(_, _)
Join(s, sep) ==
    IF s = <<>> THEN <<>>
    ELSE IF Len(s) = 1 THEN <<s[1]>>
         ELSE Join(Front(s), sep) \o <<sep, Last(s)>>

\* cycle.reduce((a, b) => (a < b ? a : b)) on a non-empty array.
RECURSIVE ReduceMin(_)
ReduceMin(cycle) ==
    IF Len(cycle) = 1 THEN cycle[1]
    ELSE LET a == ReduceMin(Front(cycle))
             b == Last(cycle)
         IN  IF StrLess(a, b) THEN a ELSE b

normalizeCycle_Sorted(cycle) == Join(SortSeq(cycle, StrLess), " -> ")

normalizeCycle(cycle) ==
    IF Len(cycle) = 0 THEN <<>>
    ELSE LET minIdx == JsIndexOf(cycle, ReduceMin(cycle))
             rotated == JsSlice(cycle, minIdx) \o SubSeq(cycle, 1, minIdx)
         IN  Join(rotated, " -> ")

RECURSIVE DedupFrom(_, _, _)
DedupFrom(cs, seen, kept) ==
    IF cs = <<>> THEN kept
    ELSE LET key == normalizeCycle(Head(cs))
         IN  IF key \notin seen
             THEN DedupFrom(Tail(cs), seen \cup {key}, Append(kept, Head(cs)))
             ELSE DedupFrom(Tail(cs), seen, kept)

deduplicateCycles(cs) == DedupFrom(cs, {}, <<>>)

\* Line 224: const unique = deduplicateCycles(allCycles), as a call on its own.
Deduplicate ==
    /\ pc = "dedup"
    /\ unique' = deduplicateCycles(rawCycles)
    /\ pc' = "deduped"
    /\ UNCHANGED <<config, options, workspace, analyzerOut, tasks, issues, result,
                   rawCycles>>
    /\ UNCHANGED dfsVars
    /\ UNCHANGED traceVars

(***************************************************************************)
(* circularHandler: part_011 lines 102-239, the helpers of check.          *)
(* The configuration is [defined |-> FALSE] when getCircularConfig gives   *)
(* undefined, otherwise the parsed section with the schema's defaults.     *)
(***************************************************************************)
UndefinedConfig == [defined |-> FALSE]

\* JavaScript truthiness of an optional string.
Truthy(s) == s # Undefined /\ s # ""

MatchesAny(name, patterns) ==
    \E k \in DOMAIN patterns : minimatch(name, patterns[k])

filterPackages_CliThenExclude(pkgs, cliPackages, cfg) ==
    LET exclude == IF cfg.defined THEN cfg.excludePackages ELSE <<>>
        include == IF cfg.defined THEN cfg.includePackages ELSE <<>>
        chosen == IF Len(cliPackages) > 0
                  THEN SelectSeq(pkgs, LAMBDA p : MatchesAny(p.name, cliPackages))
                  ELSE IF Len(include) > 0
                       THEN SelectSeq(pkgs, LAMBDA p : MatchesAny(p.name, include))
                       ELSE pkgs
    IN  SelectSeq(chosen, LAMBDA p : ~MatchesAny(p.name, exclude))

\* Lines 112-144.  options.packages absent is the empty list: both are falsy
\* in `cliPackages?.length`.
filterPackages(pkgs, cliPackages, cfg) ==
    IF Len(cliPackages) > 0
    THEN SelectSeq(pkgs, LAMBDA p : MatchesAny(p.name, cliPackages))
    ELSE LET include == IF cfg.defined THEN cfg.includePackages ELSE <<>>
             exclude == IF cfg.defined THEN cfg.excludePackages ELSE <<>>
             included == IF Len(include) > 0
                         THEN SelectSeq(pkgs, LAMBDA p : MatchesAny(p.name, include))
                         ELSE pkgs
         IN  IF Len(exclude) > 0
             THEN SelectSeq(included, LAMBDA p : ~MatchesAny(p.name, exclude))
             ELSE included

\* Lines 154-159: one rule against one file of a cycle.
IgnoreRuleHits_NoScope(ignore, packageName, file) == minimatch(file, ignore.pattern)

IgnoreRuleHits(ignore, packageName, file) ==
    IF /\ Truthy(ignore.package)
       /\ Truthy(packageName)
       /\ ~minimatch(packageName, ignore.package)
    THEN FALSE
    ELSE minimatch(file, ignore.pattern)

\* Lines 146-161.
isIgnoredCycle(cycle, packageName, cfg) ==
    IF ~cfg.defined \/ Len(cfg.ignoreCycles) = 0 THEN FALSE
    ELSE \E f \in DOMAIN cycle : \E r \in DOMAIN cfg.ignoreCycles :
            IgnoreRuleHits(cfg.ignoreCycles[r], packageName, cycle[f])

\* Lines 171-172: the detected cycle contains all members of the ignored one.
CoversIgnored_Exact(ignoredCycle, cycle) == Range(ignoredCycle) = Range(cycle)

CoversIgnored(ignoredCycle, cycle) ==
    \A k \in DOMAIN ignoredCycle : ignoredCycle[k] \in Range(cycle)

\* Lines 163-174.
isIgnoredPackageCycle(cycle, cfg) ==
    IF ~cfg.defined \/ Len(cfg.ignorePackageCycles) = 0 THEN FALSE
    ELSE \E r \in DOMAIN cfg.ignorePackageCycles :
            CoversIgnored(cfg.ignorePackageCycles[r], cycle)

\* Lines 229-235.  The message is the sequence of its pieces.
IntraIssue(severity, packageName, cycle) ==
    [severity |-> severity,
     type     |-> "circular-import",
     package  |-> packageName,
     message  |-> <<"Circular import chain: ">> \o Join(cycle, " -> "),
     fix      |-> "Refactor to break the cycle (extract shared code, use lazy imports, or restructure modules)"]

\* Lines 285-290.
InterIssue(severity, cycle) ==
    [severity |-> severity,
     type     |-> "circular-workspace-dep",
     package  |-> Undefined,
     message  |-> <<"Circular workspace dependency: ">> \o Join(cycle, " -> ")
                      \o <<" -> ", cycle[1]>>,
     fix      |-> "Restructure packages to break the workspace dependency cycle"]

\* Line 208.
IntraSeverity(cfg) == IF cfg.defined THEN cfg.intraPackageSeverity ELSE "high"

\* Line 279.
InterSeverity_FromIntra(cfg) ==
    IF cfg.defined THEN cfg.intraPackageSeverity ELSE "critical"

InterSeverity(cfg) == IF cfg.defined THEN cfg.interPackageSeverity ELSE "critical"

\* Lines 260-263.
ToolsOf(cfg, opts) ==
    IF Truthy(opts.tool) THEN <<opts.tool>>
    ELSE IF cfg.defined THEN cfg.tools ELSE <<"dpdm", "madge">>

\* Lines 212-218: dpdm runs runDpdm, anything else runMadge.
RunnerOf(tool) == IF tool = "dpdm" THEN "dpdm" ELSE "madge"

\* Lines 256-257.
runIntra(opts) == opts.intra \/ opts.all \/ (~opts.intra /\ ~opts.inter)

runInter_NoDefault(opts) == opts.inter \/ opts.all

runInter(opts) == opts.inter \/ opts.all \/ (~opts.intra /\ ~opts.inter)

\* What a runner resolved to has an iterable `circular`.  Without one the
\* spread in allCycles.push(...result.circular) throws a TypeError.
HasCycleList(outcome) == "circular" \in DOMAIN outcome

\* A cycle that is null instead of an array.
NullCycle == <<"null">>

\* cycle.length in normalizeCycle throws a TypeError on null.
NormalizeThrows(cycle) == cycle = NullCycle

\* Lines 211-221: one iteration of the tool loop.  ok = FALSE would be an
\* exception leaving runIntraPackage; the catch clause makes it TRUE always.
CollectTool_NoCatch(allCycles, outcome) ==
    IF outcome.threw \/ ~HasCycleList(outcome)
    THEN [ok |-> FALSE, allCycles |-> allCycles]
    ELSE [ok |-> TRUE, allCycles |-> allCycles \o outcome.circular]

CollectTool(allCycles, outcome) ==
    IF outcome.threw \/ ~HasCycleList(outcome)
    THEN [ok |-> TRUE, allCycles |-> allCycles]
    ELSE [ok |-> TRUE, allCycles |-> allCycles \o outcome.circular]

\* Lines 226-236: the issues of the deduplicated cycles that are not ignored.
IntraIssuesOf_PerFile(uniqueCycles, packageName, cfg) ==
    LET kept == SelectSeq(uniqueCycles, LAMBDA c : ~isIgnoredCycle(c, packageName, cfg))
        RECURSIVE PerFile(_)
        PerFile(cs) ==
            IF cs = <<>> THEN <<>>
            ELSE [f \in DOMAIN Head(cs) |->
                     IntraIssue(IntraSeverity(cfg), packageName, Head(cs))]
                 \o PerFile(Tail(cs))
    IN  PerFile(kept)

IntraIssuesOf(uniqueCycles, packageName, cfg) ==
    LET kept == SelectSeq(uniqueCycles, LAMBDA c : ~isIgnoredCycle(c, packageName, cfg))
    IN  [k \in DOMAIN kept |-> IntraIssue(IntraSeverity(cfg), packageName, kept[k])]

\* A call made on a stream of cycles: the function and its argument.
Call(fn, arg) == [fn |-> fn, arg |-> arg]

\* Lines 226-236: the calls of the loop over the deduplicated cycles, one
\* isIgnoredCycle per cycle and one issues.push per cycle that is kept.
RECURSIVE IntraLoopCalls(_, _, _)
IntraLoopCalls(uniqueCycles, packageName, cfg) ==
    IF uniqueCycles = <<>> THEN <<>>
    ELSE LET cycle == Head(uniqueCycles)
         IN  <<Call("isIgnoredCycle", cycle)>>
                 \o (IF isIgnoredCycle(cycle, packageName, cfg) THEN <<>>
                     ELSE <<Call("issues.push", cycle)>>)
                 \o IntraLoopCalls(Tail(uniqueCycles), packageName, cfg)

\* Lines 282-291: the calls of the loop over the detected cycles.
RECURSIVE InterCallsOf(_, _)
InterCallsOf(found, cfg) ==
    IF found = <<>> THEN <<>>
    ELSE LET cycle == Head(found)
         IN  <<Call("isIgnoredPackageCycle", cycle)>>
                 \o (IF isIgnoredPackageCycle(cycle, cfg) THEN <<>>
                     ELSE <<Call("issues.push", cycle)>>)
                 \o InterCallsOf(Tail(found), cfg)

FinishIntra_NoDedup(task, cfg) ==
    [task EXCEPT !.unique = task.allCycles,
                 !.issues = IntraIssuesOf(task.allCycles, task.pkg, cfg),
                 !.calls = IntraLoopCalls(task.allCycles, task.pkg, cfg),
                 !.status = "fulfilled"]

\* Lines 224-238: the end of runIntraPackage.  An exception of
\* normalizeCycle leaves deduplicateCycles and runIntraPackage: the promise
\* is rejected.
FinishIntra(task, cfg) ==
    IF \E i \in DOMAIN task.allCycles : NormalizeThrows(task.allCycles[i])
    THEN [task EXCEPT !.calls = <<Call("deduplicateCycles", task.allCycles)>>,
                      !.status = "rejected"]
    ELSE LET uniqueCycles == deduplicateCycles(task.allCycles)
         IN  [task EXCEPT !.unique = uniqueCycles,
                          !.issues = IntraIssuesOf(uniqueCycles, task.pkg, cfg),
                          !.calls = <<Call("deduplicateCycles", task.allCycles)>>
                                        \o IntraLoopCalls(uniqueCycles, task.pkg, cfg),
                          !.status = "fulfilled"]

\* Lines 206-210: the call runIntraPackage(pkg, tools, config) up to its first
\* await; without tools it runs to its end at once.
StartIntraTask(packageName, tools, cfg) ==
    LET task == [pkg |-> packageName, t |-> 1, allCycles |-> <<>>,
                 unique |-> <<>>, issues |-> <<>>, calls |-> <<>>,
                 status |-> "pending"]
    IN  IF tools = <<>> THEN FinishIntra(task, cfg) ELSE task

\* The continuation of runIntraPackage when the awaited runner settles.
AfterToolCall(task, outcome, tools, cfg) ==
    LET got == CollectTool(task.allCycles, outcome)
        next == [task EXCEPT !.allCycles = got.allCycles, !.t = @ + 1]
    IN  IF ~got.ok THEN [task EXCEPT !.status = "rejected"]
        ELSE IF next.t > Len(tools) THEN FinishIntra(next, cfg)
        ELSE next

\* Lines 282-291.
InterIssuesOf(found, cfg) ==
    LET kept == SelectSeq(found, LAMBDA c : ~isIgnoredPackageCycle(c, cfg))
    IN  [k \in DOMAIN kept |-> InterIssue(InterSeverity(cfg), kept[k])]

CountSeverity_Present(list, severity) ==
    IF \E k \in DOMAIN list : list[k].severity = severity THEN 1 ELSE 0

CountSeverity(list, severity) ==
    Cardinality({k \in DOMAIN list : list[k].severity = severity})

\* Lines 296-306.
SuccessOf_SevereOnly(list) == CountSeverity(list, "critical") = 0

SuccessOf(list) == Len(list) = 0

CheckResultOf(list) ==
    [kind    |-> "result",
     success |-> SuccessOf(list),
     issues  |-> list,
     stats   |-> [total    |-> Len(list),
                  critical |-> CountSeverity(list, "critical"),
                  high     |-> CountSeverity(list, "high"),
                  medium   |-> CountSeverity(list, "medium"),
                  low      |-> CountSeverity(list, "low")]]

\* Line 250.
DisabledResult ==
    [kind    |-> "result",
     success |-> TRUE,
     issues  |-> <<>>,
     stats   |-> [total |-> 0, critical |-> 0, high |-> 0, medium |-> 0, low |-> 0]]

\* intraResults.flat()
RECURSIVE Flat(_)
Flat(lists) ==
    IF lists = <<>> THEN <<>> ELSE Head(lists) \o Flat(Tail(lists))

(***************************************************************************)
(* check: part_011 lines 241-311.                                          *)
(***************************************************************************)
\* Lines 246-251: the checks are disabled.
CheckDisabled ==
    /\ pc = "start"
    /\ config.defined /\ config.enabled = FALSE
    /\ result' = DisabledResult
    /\ pc' = "done"
    /\ UNCHANGED <<config, options, workspace, analyzerOut, tasks, issues>>
    /\ UNCHANGED dfsVars
    /\ UNCHANGED dedupVars
    /\ UNCHANGED traceVars

CheckDiscover_IgnoresEnabled ==
    /\ pc = "start"
    /\ pc' = "discover"
    /\ UNCHANGED <<config, options, workspace, analyzerOut, tasks, issues, result>>
    /\ UNCHANGED dfsVars
    /\ UNCHANGED dedupVars
    /\ UNCHANGED traceVars

\* Line 253: await getWorkspaceInfo(options.cwd).
CheckDiscover ==
    /\ pc = "start"
    /\ ~(config.defined /\ config.enabled = FALSE)
    /\ pc' = "discover"
    /\ UNCHANGED <<config, options, workspace, analyzerOut, tasks, issues, result>>
    /\ UNCHANGED dfsVars
    /\ UNCHANGED dedupVars
    /\ UNCHANGED traceVars

\* Lines 253, 307-310: workspace discovery fails, check rethrows.
WorkspaceFails ==
    /\ pc = "discover"
    /\ result' = [kind |-> "threw"]
    /\ pc' = "done"
    /\ UNCHANGED <<config, options, workspace, analyzerOut, tasks, issues>>
    /\ UNCHANGED dfsVars
    /\ UNCHANGED dedupVars
    /\ UNCHANGED traceVars

\* Lines 253-263: the workspace is there.
WorkspaceResolved ==
    /\ pc = "discover"
    /\ issues' = <<>>
    /\ pc' = "intra"
    /\ UNCHANGED <<config, options, workspace, analyzerOut, tasks, result>>
    /\ UNCHANGED dfsVars
    /\ UNCHANGED dedupVars
    /\ UNCHANGED traceVars

IntraWanted == runIntra(options) /\ ~(config.defined /\ config.intraPackage = FALSE)

InterWanted_FlagsOnly == runInter(options)

InterWanted == runInter(options) /\ ~(config.defined /\ config.interPackage = FALSE)

\* Lines 266-272: one runIntraPackage call per target package, all started
\* before any continues.
StartIntra ==
    /\ pc = "intra"
    /\ IntraWanted
    /\ LET targetPackages == filterPackages(workspace, options.packages, config)
       IN  tasks' = [k \in DOMAIN targetPackages |->
                       StartIntraTask(targetPackages[k].name,
                                      ToolsOf(config, options), config)]
    /\ pc' = "await"
    /\ UNCHANGED <<config, options, workspace, analyzerOut, issues, result>>
    /\ UNCHANGED dfsVars
    /\ UNCHANGED dedupVars
    /\ UNCHANGED traceVars

SkipIntra ==
    /\ pc = "intra"
    /\ ~IntraWanted
    /\ pc' = "inter"
    /\ UNCHANGED <<config, options, workspace, analyzerOut, tasks, issues, result>>
    /\ UNCHANGED dfsVars
    /\ UNCHANGED dedupVars
    /\ UNCHANGED traceVars

AnalyzerSettles_PushesShared(k) ==
    /\ pc = "await"
    /\ tasks[k].status = "pending"
    /\ LET tools == ToolsOf(config, options)
           outcome == analyzerOut[<<tasks[k].pkg, RunnerOf(tools[tasks[k].t])>>]
           after == AfterToolCall(tasks[k], outcome, tools, config)
       IN  /\ tasks' = [tasks EXCEPT ![k] = after]
           /\ issues' = issues \o after.issues
    /\ UNCHANGED <<config, options, workspace, analyzerOut, result, pc>>
    /\ UNCHANGED dfsVars
    /\ UNCHANGED dedupVars
    /\ UNCHANGED traceVars

\* Lines 213/216: the runner a task awaits settles and the task continues
\* to its next await or to its end.
AnalyzerSettles(k) ==
    /\ pc = "await"
    /\ tasks[k].status = "pending"
    /\ LET tools == ToolsOf(config, options)
           outcome == analyzerOut[<<tasks[k].pkg, RunnerOf(tools[tasks[k].t])>>]
       IN  tasks' = [tasks EXCEPT ![k] = AfterToolCall(@, outcome, tools, config)]
    /\ UNCHANGED <<config, options, workspace, analyzerOut, issues, result, pc>>
    /\ UNCHANGED dfsVars
    /\ UNCHANGED dedupVars
    /\ UNCHANGED traceVars

\* Lines 270-273: Promise.all fulfils, issues.push(...intraResults.flat()).
IntraSettled_DedupAcross ==
    /\ pc = "await"
    /\ \A k \in DOMAIN tasks : tasks[k].status = "fulfilled"
    /\ LET all == Flat([k \in DOMAIN tasks |-> tasks[k].issues])
           idx == SelectSeq([i \in DOMAIN all |-> i],
                            LAMBDA i : \A j \in 1..(i - 1) :
                                          all[j].message # all[i].message)
       IN  issues' = issues \o [k \in DOMAIN idx |-> all[idx[k]]]
    /\ pc' = "inter"
    /\ UNCHANGED <<config, options, workspace, analyzerOut, tasks, result>>
    /\ UNCHANGED dfsVars
    /\ UNCHANGED dedupVars
    /\ UNCHANGED traceVars

IntraSettled ==
    /\ pc = "await"
    /\ \A k \in DOMAIN tasks : tasks[k].status = "fulfilled"
    /\ issues' = issues \o Flat([k \in DOMAIN tasks |-> tasks[k].issues])
    /\ pc' = "inter"
    /\ UNCHANGED <<config, options, workspace, analyzerOut, tasks, result>>
    /\ UNCHANGED dfsVars
    /\ UNCHANGED dedupVars
    /\ UNCHANGED traceVars

\* Lines 270-272, 307-310: a runIntraPackage promise is rejected, so is
\* Promise.all, and check rethrows.
IntraRejected ==
    /\ pc = "await"
    /\ \E k \in DOMAIN tasks : tasks[k].status = "rejected"
    /\ result' = [kind |-> "threw"]
    /\ pc' = "done"
    /\ UNCHANGED <<config, options, workspace, analyzerOut, tasks, issues>>
    /\ UNCHANGED dfsVars
    /\ UNCHANGED dedupVars
    /\ UNCHANGED traceVars

\* Lines 277-281: detectInterPackageCycles(workspace.packages) is called.
StartInter_Selected ==
    /\ pc = "inter"
    /\ InterWanted
    /\ packages' = filterPackages(workspace, options.packages, config)
    /\ dpc' = "build"
    /\ pc' = "detect"
    /\ UNCHANGED <<nameSet, adj, color, path, cycles, stack, outer>>
    /\ UNCHANGED dedupVars
    /\ UNCHANGED traceVars
    /\ UNCHANGED <<config, options, workspace, analyzerOut, tasks, issues, result>>

StartInter ==
    /\ pc = "inter"
    /\ InterWanted
    /\ packages' = workspace
    /\ dpc' = "build"
    /\ pc' = "detect"
    /\ UNCHANGED <<nameSet, adj, color, path, cycles, stack, outer>>
    /\ UNCHANGED dedupVars
    /\ UNCHANGED traceVars
    /\ UNCHANGED <<config, options, workspace, analyzerOut, tasks, issues, result>>

SkipInter ==
    /\ pc = "inter"
    /\ ~InterWanted
    /\ pc' = "return"
    /\ UNCHANGED <<config, options, workspace, analyzerOut, tasks, issues, result>>
    /\ UNCHANGED dfsVars
    /\ UNCHANGED dedupVars
    /\ UNCHANGED traceVars

\* Lines 282-291: the detector returned.
InterDone ==
    /\ pc = "detect"
    /\ dpc = "done"
    /\ issues' = issues \o InterIssuesOf(cycles, config)
    /\ interCalls' = InterCallsOf(cycles, config)
    /\ pc' = "return"
    /\ UNCHANGED <<config, options, workspace, analyzerOut, tasks, result>>
    /\ UNCHANGED dfsVars
    /\ UNCHANGED dedupVars

\* Lines 294-306.
CheckReturn ==
    /\ pc = "return"
    /\ result' = CheckResultOf(issues)
    /\ pc' = "done"
    /\ UNCHANGED <<config, options, workspace, analyzerOut, tasks, issues>>
    /\ UNCHANGED dfsVars
    /\ UNCHANGED dedupVars
    /\ UNCHANGED traceVars

CheckNext ==
    \/ CheckDisabled
    \/ CheckDiscover
    \/ WorkspaceFails
    \/ WorkspaceResolved
    \/ StartIntra
    \/ SkipIntra
    \/ \E k \in DOMAIN tasks : AnalyzerSettles(k)
    \/ IntraSettled
    \/ IntraRejected
    \/ StartInter
    \/ SkipInter
    \/ DetectNext
    \/ InterDone
    \/ CheckReturn

(***************************************************************************)
(* Inputs of detectInterPackageCycles.                                     *)
(***************************************************************************)
PkgNames == {"a", "b", "c"}

\* Dependency maps: at most n entries, distinct keys.
DepMaps(keys, versions, n) ==
    {m \in UNION {[1..k -> keys \X versions] : k \in 0..n} :
        \A i, j \in DOMAIN m : i # j => m[i][1] # m[j][1]}

\* Package lists: distinct names, every order.
NameOrders(names, n) ==
    {o \in UNION {[1..k -> names] : k \in 0..n} :
        \A i, j \in DOMAIN o : i # j => o[i] # o[j]}

MakePkg(name, deps, devDeps) ==
    [name |-> name, dependencies |-> deps, devDependencies |-> devDeps]

DetectStart ==
    /\ nameSet = <<>>
    /\ adj = <<>>
    /\ color = <<>>
    /\ path = <<>>
    /\ cycles = <<>>
    /\ stack = <<>>
    /\ outer = 1
    /\ dpc = "build"

\* check is not running: detectInterPackageCycles is called on its own.
CheckOff ==
    /\ config = [defined |-> FALSE]
    /\ options = <<>>
    /\ workspace = <<>>
    /\ analyzerOut = <<>>
    /\ tasks = <<>>
    /\ issues = <<>>
    /\ result = [kind |-> "none"]
    /\ pc = "off"
    /\ rawCycles = <<>>
    /\ unique = <<>>
    /\ interCalls = <<>>

\* Every workspace of up to MaxPkgs packages over PkgNames, every package
\* order, every order of each package's workspace dependencies.
InitAnyGraph ==
    \E order \in NameOrders(PkgNames, MaxPkgs) :
      \E deps \in [DOMAIN order -> DepMaps(PkgNames, {WsStar}, MaxDeps)] :
         packages = [i \in DOMAIN order |-> MakePkg(order[i], deps[i], <<>>)]

\* Workspaces of the packages a and b whose first package declares anything:
\* known and unknown ("x") names, workspace and other specifiers, in either
\* map, also the same name in both maps.
DeclKeys == {"a", "b", "x"}

DeclVersions == {WsCaret, Semver, NoColon}

InitAnyDeclaration ==
    \E order \in NameOrders({"a", "b"}, 2) :
      \E deps, devDeps \in DepMaps(DeclKeys, DeclVersions, MaxDeps) :
         /\ order # <<>>
         /\ packages = [i \in DOMAIN order |->
                          IF i = 1 THEN MakePkg(order[i], deps, devDeps)
                          ELSE MakePkg(order[i], <<>>, <<>>)]

\* The simple shapes: one mutual pair, one triangle, two disjoint pairs, each
\* alone or next to the acyclic chain p -> q; `expected` is the member sets
\* of the cycles of the shape.
Ws(target) == <<<<target, WsStar>>>>

Chain == <<MakePkg("p", Ws("q"), <<>>), MakePkg("q", <<>>, <<>>)>>

Pair == <<MakePkg("a", Ws("b"), <<>>), MakePkg("b", <<>>, Ws("a"))>>

Triangle ==
    <<MakePkg("a", Ws("b"), <<>>), MakePkg("b", Ws("c"), <<>>),
      MakePkg("c", <<>>, Ws("a"))>>

PairXY == <<MakePkg("x", Ws("y"), <<>>), MakePkg("y", Ws("x"), <<>>)>>

Shapes ==
    {[pkgs |-> Pair,                     expected |-> {{"a", "b"}}],
     [pkgs |-> Pair \o Chain,            expected |-> {{"a", "b"}}],
     [pkgs |-> Triangle,                 expected |-> {{"a", "b", "c"}}],
     [pkgs |-> Triangle \o Chain,        expected |-> {{"a", "b", "c"}}],
     [pkgs |-> Pair \o PairXY,           expected |-> {{"a", "b"}, {"x", "y"}}],
     [pkgs |-> Pair \o PairXY \o Chain,  expected |-> {{"a", "b"}, {"x", "y"}}],
     [pkgs |-> Chain,                    expected |-> {}]}

InitShapes ==
    \E shape \in Shapes :
      \E perm \in Permutations(DOMAIN shape.pkgs) :
         packages = [i \in DOMAIN shape.pkgs |-> shape.pkgs[perm[i]]]

InitInter ==
    /\ InitAnyGraph \/ InitAnyDeclaration \/ InitShapes
    /\ DetectStart
    /\ CheckOff

SpecInter == InitInter /\ [][DetectNext]_vars

(***************************************************************************)
(* Properties of detectInterPackageCycles.                                 *)
(***************************************************************************)
\* The graph the builder built.
Edges == {e \in (DOMAIN adj) \X (DOMAIN adj) : e[2] \in Range(adj[e[1]])}

Succ(E, n) == {e[2] : e \in {d \in E : d[1] = n}}

RECURSIVE ReachFrom(_, _)
ReachFrom(E, S) ==
    LET T == S \cup UNION {Succ(E, n) : n \in S}
    IN  IF T = S THEN S ELSE ReachFrom(E, T)

OnCycle(E, n) == n \in ReachFrom(E, Succ(E, n))

Acyclic(E) == \A e \in E : ~OnCycle(E, e[1])

Built == dpc \in {"scan", "done"}

\* m declares b with a workspace-protocol specifier.
WorkspaceSpecifiers == {WsStar, WsCaret}

DeclaresWs(m, b) == \E i \in DOMAIN m : m[i][1] = b /\ m[i][2] \in WorkspaceSpecifiers

InputNames == {packages[i].name : i \in DOMAIN packages}

\* C1: when the workspace graph has no directed cycle (no edges, a chain,
\* unconnected packages, no packages), the detector reports no cycle at any
\* point of the traversal and returns the empty list.
C1_AcyclicGivesNoCycles ==
    (Built /\ Acyclic(Edges)) => cycles = <<>>

C1_Witness ==
    /\ dpc = "done" /\ cycles = <<>> /\ Acyclic(Edges)
    /\ \E x, y, z \in DOMAIN adj :
          /\ Cardinality({x, y, z}) = 3
          /\ <<x, y>> \in Edges /\ <<y, z>> \in Edges

\* C2: for the simple shapes the detector returns, for every order of the
\* package list, one cycle per cyclic component with exactly its members:
\* one of length 2 per mutual pair, one of length 3 for the triangle, none
\* for the acyclic component.
ShapeOf(pkgs) == {s \in Shapes : Range(s.pkgs) = Range(pkgs)}

C2_SimpleShapesOrderIndependent ==
    dpc = "done" =>
        \A s \in ShapeOf(packages) :
            /\ Len(cycles) = Cardinality(s.expected)
            /\ {Range(cycles[i]) : i \in DOMAIN cycles} = s.expected
            /\ \A i \in DOMAIN cycles : Len(cycles[i]) = Cardinality(Range(cycles[i]))

C2_Witness ==
    /\ dpc = "done" /\ Len(cycles) = 2
    /\ \E s \in ShapeOf(packages) : Len(s.pkgs) = 6
    /\ packages[1].name = "q" /\ packages[2].name = "y"

\* C3: a package with a workspace edge to itself gets exactly one cycle that
\* is the one-element sequence of its name.
C3_SelfLoopOneCycle ==
    dpc = "done" =>
        \A n \in DOMAIN adj :
            n \in Range(adj[n]) =>
                Cardinality({i \in DOMAIN cycles : cycles[i] = <<n>>}) = 1

C3_Witness ==
    /\ dpc = "done"
    /\ \E n \in DOMAIN adj :
          /\ n \in Range(adj[n])
          /\ Len(adj[n]) = 2
          /\ Len(cycles) >= 2
          /\ \E i \in DOMAIN cycles : cycles[i] = <<n>>

\* C4: whenever B is a known package and A declares B with a workspace
\* specifier in its dependency map or in its dev-dependency map, whatever
\* the other map says about B, the built graph has the edge A -> B.
C4_EdgeForEveryWorkspaceDeclaration ==
    Built =>
        \A i \in DOMAIN packages : \A b \in InputNames :
            (\/ DeclaresWs(packages[i].dependencies, b)
             \/ DeclaresWs(packages[i].devDependencies, b))
                => b \in Range(adj[packages[i].name])

\* C5: the built graph has the edge A -> B only if B names a package of the
\* input list and A declares B with a workspace specifier in one of its two
\* maps; other specifiers and unknown names give no edge.
C5_EdgesOnlyFromWorkspaceDeclarations ==
    Built =>
        \A i \in DOMAIN packages : \A b \in Range(adj[packages[i].name]) :
            /\ b \in InputNames
            /\ \/ DeclaresWs(packages[i].dependencies, b)
               \/ DeclaresWs(packages[i].devDependencies, b)

C5_Witness ==
    /\ Built
    /\ \E i \in DOMAIN packages :
          /\ adj[packages[i].name] = <<>>
          /\ \E k \in DOMAIN packages[i].dependencies :
                /\ packages[i].dependencies[k][1] \in InputNames
                /\ packages[i].dependencies[k][2] = Semver
          /\ \E k \in DOMAIN packages[i].devDependencies :
                /\ packages[i].devDependencies[k][1] \notin InputNames
                /\ packages[i].devDependencies[k][2] = WsCaret

(***************************************************************************)
(* deduplicateCycles on its own.                                           *)
(***************************************************************************)
MaxCycleLen == 3    \* elements of one enumerated cycle
MaxCycles == 2      \* cycles of one enumerated list of arbitrary cycles

CyclesUpTo(files, n) == UNION {[1..k -> files] : k \in 0..n}

Rotate(c, k) == SubSeq(c, k + 1, Len(c)) \o SubSeq(c, 1, k)

\* Short cycles over two files, and every rotation of a three-file cycle and
\* of its reverse.
SmallCycles ==
    (CyclesUpTo({"src/a.ts", "src/b.ts"}, 2) \ {<<>>})
        \cup {Rotate(<<"lib/c.ts", "src/a.ts", "src/b.ts">>, k) : k \in 0..2}
        \cup {Rotate(<<"src/b.ts", "src/a.ts", "lib/c.ts">>, k) : k \in 0..2}

DetectIdle ==
    /\ packages = <<>>
    /\ nameSet = <<>>
    /\ adj = <<>>
    /\ color = <<>>
    /\ path = <<>>
    /\ cycles = <<>>
    /\ stack = <<>>
    /\ outer = 1
    /\ dpc = "idle"

\* The rotations of a cycle and of its reverse.
Variants(c) ==
    {Rotate(c, k) : k \in 0..Len(c)}
        \cup {Rotate([i \in DOMAIN c |-> c[Len(c) + 1 - i]], k) : k \in 0..Len(c)}

\* Every list of up to MaxCycles cycles no longer than there are files; every
\* cycle of up to MaxCycleLen files followed by one of its variants; every
\* list of MaxCycles + 1 small cycles.
InitDedup ==
    /\ \/ \E k \in 0..MaxCycles :
            rawCycles \in [1..k -> CyclesUpTo(Files, Cardinality(Files))]
       \/ \E c \in CyclesUpTo(Files, MaxCycleLen) : \E d \in Variants(c) :
            rawCycles = <<c, d>>
       \/ rawCycles \in [1..(MaxCycles + 1) -> SmallCycles]
    /\ unique = <<>>
    /\ pc = "dedup"
    /\ config = UndefinedConfig
    /\ options = <<>>
    /\ workspace = <<>>
    /\ analyzerOut = <<>>
    /\ tasks = <<>>
    /\ issues = <<>>
    /\ result = [kind |-> "none"]
    /\ interCalls = <<>>
    /\ DetectIdle

SpecDedup == InitDedup /\ [][Deduplicate]_vars

IsRotation(c, d) ==
    /\ Len(c) = Len(d)
    /\ \E k \in 0..Len(c) : d = Rotate(c, k)

\* The list without every cycle that is a rotation of an earlier one.
KeepFirsts(cs) ==
    LET idx == SelectSeq([i \in DOMAIN cs |-> i],
                         LAMBDA i : \A j \in 1..(i - 1) : ~IsRotation(cs[j], cs[i]))
    IN  [k \in DOMAIN idx |-> cs[idx[k]]]

\* C6: deduplicateCycles collapses rotations.  For every input list, the
\* output is the input without the cycles that are rotations of an earlier
\* cycle, the rest unchanged and in input order.
C6_RotationsCollapsed ==
    pc = "deduped" => unique = KeepFirsts(rawCycles)

(***************************************************************************)
(* Inputs of check.                                                        *)
(***************************************************************************)
Tools == {"dpdm", "madge"}

Severities == {"low", "medium", "high", "critical"}

\* schema.ts lines 180-205: the defaults of the circular section.
DefaultConfig ==
    [defined              |-> TRUE,
     enabled              |-> TRUE,
     intraPackage         |-> TRUE,
     interPackage         |-> TRUE,
     intraPackageSeverity |-> "high",
     interPackageSeverity |-> "critical",
     tools                |-> <<"dpdm", "madge">>,
     ignoreCycles         |-> <<>>,
     ignorePackageCycles  |-> <<>>,
     includePackages      |-> <<>>,
     excludePackages      |-> <<>>]

\* check called with no flag.
DefaultOptions ==
    [intra |-> FALSE, inter |-> FALSE, all |-> FALSE, packages |-> <<>>,
     tool |-> Undefined]

Throws == [threw |-> TRUE]

Returns(cs) == [threw |-> FALSE, circular |-> cs]

\* The runner resolves to an object without a cycle list.
NoList == [threw |-> FALSE]

CycAB == <<"src/a.ts", "src/b.ts">>
CycBA == <<"src/b.ts", "src/a.ts">>
CycC == <<"lib/c.ts">>

WsPair ==
    <<MakePkg("@p/a", Ws("@p/b"), <<>>), MakePkg("@p/b", Ws("@p/a"), <<>>)>>

WsChain ==
    <<MakePkg("@p/a", Ws("@p/b"), <<>>), MakePkg("@p/b", <<>>, <<>>)>>

\* @p/a -> @p/a, @p/a -> @p/b -> c -> @p/a
WsKnot ==
    <<MakePkg("@p/a", Ws("@p/a") \o Ws("@p/b"), <<>>), MakePkg("@p/b", Ws("c"), <<>>),
      MakePkg("c", <<>>, Ws("@p/a"))>>

WsLoose == <<MakePkg("@p/a", <<>>, <<>>), MakePkg("c", <<>>, <<>>)>>

NamesOf(pkgs) == {pkgs[i].name : i \in DOMAIN pkgs}

AllReturn(pkgs, cs) == [x \in NamesOf(pkgs) \X Tools |-> Returns(cs)]

CheckStartState ==
    /\ tasks = <<>>
    /\ issues = <<>>
    /\ result = [kind |-> "none"]
    /\ pc = "start"
    /\ rawCycles = <<>>
    /\ unique = <<>>
    /\ interCalls = <<>>
    /\ DetectIdle

\* Switches, flags and severities: every combination, over a workspace with
\* and one without a package cycle, with silent analyzers and with dpdm
\* reporting one or two cycles for @p/a.
InitFlags ==
    /\ workspace \in {WsPair, WsChain}
    /\ \/ config = UndefinedConfig
       \/ \E e, i, x \in BOOLEAN : \E s1, s2 \in Severities :
            config = [DefaultConfig EXCEPT !.enabled = e, !.intraPackage = i,
                         !.interPackage = x, !.intraPackageSeverity = s1,
                         !.interPackageSeverity = s2]
    /\ \E i, x, a \in BOOLEAN :
            options = [DefaultOptions EXCEPT !.intra = i, !.inter = x, !.all = a]
    /\ \/ analyzerOut = AllReturn(workspace, <<>>)
       \/ \E cs \in {<<CycAB>>, <<CycAB, CycC>>} :
            analyzerOut = [AllReturn(workspace, <<>>) EXCEPT
                              ![<<"@p/a", "dpdm">>] = Returns(cs)]

\* Analyzer outcomes: every combination of throwing and returning for every
\* package and runner, under every tool selection.
ToolLists == {<<"dpdm", "madge">>, <<"madge", "dpdm">>, <<"madge">>, <<>>}

Outcomes == {Throws, Returns(<<>>), Returns(<<CycAB>>), Returns(<<CycC, CycBA>>)}

InitOutcomes ==
    /\ workspace = WsChain
    /\ \E ts \in ToolLists : config = [DefaultConfig EXCEPT !.tools = ts]
    /\ \E t \in {Undefined, "dpdm", "madge"} :
            options = [DefaultOptions EXCEPT !.tool = t]
    /\ analyzerOut \in [NamesOf(workspace) \X Tools -> Outcomes]

MaxRules == 2       \* rules of one enumerated ignore list

\* File-scoped ignore rules: every list of up to MaxRules rules.
FilePatterns == {"src/*", "lib/*", "**/c.ts", "src/a.ts"}

ScopePatterns == {Undefined, "@p/*", "@p/a", "@q/*", "c"}

IgnoreRules == [pattern : FilePatterns, package : ScopePatterns]

InitIgnoreFiles ==
    /\ workspace = WsLoose
    /\ \E rules \in UNION {[1..k -> IgnoreRules] : k \in 0..MaxRules} :
            config = [DefaultConfig EXCEPT !.ignoreCycles = rules, !.tools = <<"dpdm">>]
    /\ options = [DefaultOptions EXCEPT !.intra = TRUE]
    /\ \E o1, o2 \in {<<CycAB>>, <<CycC>>, <<CycAB, CycC>>} :
            analyzerOut = [AllReturn(workspace, <<>>) EXCEPT
                              ![<<"@p/a", "dpdm">>] = Returns(o1),
                              ![<<"c", "dpdm">>] = Returns(o2)]

\* Package-set ignore rules: every list of up to MaxRules sets of two or three
\* names, one of the names not in the workspace.
IgnoreSets ==
    {r \in [1..2 -> {"@p/a", "@p/b", "c", "@p/z"}] \cup
           [1..3 -> {"@p/a", "@p/b", "c", "@p/z"}] :
        \A i, j \in DOMAIN r : i < j => r[i] # r[j]}

InitIgnorePackages ==
    /\ workspace \in {WsPair, WsKnot}
    /\ \E rules \in UNION {[1..k -> IgnoreSets] : k \in 0..MaxRules} :
            config = [DefaultConfig EXCEPT !.ignorePackageCycles = rules]
    /\ options = [DefaultOptions EXCEPT !.inter = TRUE]
    /\ analyzerOut = AllReturn(workspace, <<>>)

\* Malformed analyzer output: every combination, for two packages and both
\* runners, of an empty list, no list, an empty cycle, a null cycle, a proper
\* cycle and a proper cycle beside an empty one.
MalformedOutcomes ==
    {Returns(<<>>), NoList, Returns(<< <<>> >>), Returns(<<NullCycle>>),
     Returns(<<CycAB>>), Returns(<<CycAB, <<>> >>)}

InitMalformed ==
    /\ workspace = WsLoose
    /\ config = DefaultConfig
    /\ options = [DefaultOptions EXCEPT !.intra = TRUE]
    /\ analyzerOut \in [NamesOf(workspace) \X Tools -> MalformedOutcomes]

\* Package selection: every command-level list and every include list of up
\* to two globs, every exclude list of up to one, over three packages, with
\* the intra-package scan alone and with both scans.
NameGlobs == {"@p/*", "@p/a", "c", "**", "@q/*"}

GlobLists(n) == UNION {[1..k -> NameGlobs] : k \in 0..n}

InitSelection ==
    /\ workspace = WsKnot
    /\ \E inc \in GlobLists(2), exc \in GlobLists(1) :
            config = [DefaultConfig EXCEPT !.includePackages = inc,
                         !.excludePackages = exc, !.tools = <<"dpdm">>]
    /\ \E cli \in GlobLists(2) : \E a \in BOOLEAN :
            options = [DefaultOptions EXCEPT !.intra = TRUE, !.all = a,
                          !.packages = cli]
    /\ analyzerOut = AllReturn(workspace, <<CycAB>>)

InitCheck ==
    /\ \/ InitFlags
       \/ InitOutcomes
       \/ InitIgnoreFiles
       \/ InitIgnorePackages
       \/ InitSelection
       \/ InitMalformed
    /\ CheckStartState

SpecCheck == InitCheck /\ [][CheckNext]_vars

(***************************************************************************)
(* Properties of check.                                                    *)
(***************************************************************************)
Returned == pc = "done" /\ result.kind = "result"

IntraReported == SelectSeq(result.issues, LAMBDA i : i.type = "circular-import")

InterReported == SelectSeq(result.issues, LAMBDA i : i.type = "circular-workspace-dep")

PackageRules == IF config.defined THEN config.ignorePackageCycles ELSE <<>>

FileRules == IF config.defined THEN config.ignoreCycles ELSE <<>>

\* Some configured package set has all its members in the cycle.
SupersetOfIgnored(cycle) ==
    \E r \in DOMAIN PackageRules : Range(PackageRules[r]) \subseteq Range(cycle)

\* C7: an inter-package cycle is suppressed exactly when its member set is a
\* superset of one of the configured ignorePackageCycles sets: the reported
\* workspace-dependency issues are those of the detected cycles that are no
\* such superset, in detection order.
C7_SuppressedWhenSupersetOfIgnoredSet ==
    (Returned /\ dpc = "done") =>
        LET expected == SelectSeq(cycles, LAMBDA c : ~SupersetOfIgnored(c))
        IN  InterReported =
                [k \in DOMAIN expected |-> InterIssue(InterSeverity(config), expected[k])]

C7_Witness ==
    /\ Returned /\ dpc = "done"
    /\ Len(cycles) = 2
    /\ Len(InterReported) = 1
    /\ \E k \in DOMAIN cycles : \E r \in DOMAIN PackageRules :
            /\ Len(cycles[k]) = 3
            /\ Len(PackageRules[r]) = 2
            /\ Range(PackageRules[r]) \subseteq Range(cycles[k])
    /\ \E k \in DOMAIN cycles : \E r \in DOMAIN PackageRules :
            /\ ~SupersetOfIgnored(cycles[k])
            /\ Range(PackageRules[r]) \cap Range(cycles[k]) # {}

\* A rule matches a file of the cycle, and the rule has no package scope or
\* its scope glob matches the package name.
FileRuleApplies(rule, cycle, packageName) ==
    /\ \E f \in DOMAIN cycle : minimatch(cycle[f], rule.pattern)
    /\ rule.package = Undefined \/ minimatch(packageName, rule.package)

FileSuppressed(cycle, packageName) ==
    \E r \in DOMAIN FileRules : FileRuleApplies(FileRules[r], cycle, packageName)

ExpectedIntra(task) ==
    LET kept == SelectSeq(task.unique, LAMBDA c : ~FileSuppressed(c, task.pkg))
    IN  [k \in DOMAIN kept |-> IntraIssue(IntraSeverity(config), task.pkg, kept[k])]

\* C8: an intra-package cycle is suppressed exactly when some ignoreCycles
\* rule has a pattern matching one of the cycle's files and either no package
\* scope or a scope glob matching the package name; a rule whose scope does
\* not match the package never suppresses.  The issues of every analysed
\* package, and the import issues check returns, are those of the package's
\* deduplicated cycles that no rule suppresses.
C8_FileRuleSuppressesWithinScope ==
    /\ \A k \in DOMAIN tasks :
            tasks[k].status = "fulfilled" => tasks[k].issues = ExpectedIntra(tasks[k])
    /\ (Returned /\ tasks # <<>>) =>
            IntraReported = Flat([k \in DOMAIN tasks |-> ExpectedIntra(tasks[k])])

C8_Witness ==
    /\ Returned
    /\ Len(tasks) = 2
    /\ tasks[1].pkg = "@p/a" /\ tasks[2].pkg = "c"
    /\ tasks[1].unique = <<CycAB, CycC>> /\ tasks[2].unique = <<CycAB, CycC>>
    /\ FileRules = <<[pattern |-> "src/*", package |-> "@p/*"]>>
    /\ Len(tasks[1].issues) = 1
    /\ Len(tasks[2].issues) = 2
    /\ Len(IntraReported) = 3

\* The outcomes with every failed invocation replaced by an empty cycle list.
FailuresAsEmpty(out) ==
    [x \in DOMAIN out |-> IF out[x].threw THEN Returns(<<>>) ELSE out[x]]

\* The cycles the tools report for a package when none of them fails.
RECURSIVE ReportedBy(_, _, _)
ReportedBy(tools, packageName, out) ==
    IF tools = <<>> THEN <<>>
    ELSE out[<<packageName, RunnerOf(Head(tools))>>].circular
             \o ReportedBy(Tail(tools), packageName, out)

IntraIssuesWhenNoneFails(out) ==
    LET targetPackages == filterPackages(workspace, options.packages, config)
        tools == ToolsOf(config, options)
    IN  Flat([k \in DOMAIN targetPackages |->
                IntraIssuesOf(deduplicateCycles(
                                  ReportedBy(tools, targetPackages[k].name, out)),
                              targetPackages[k].name, config)])

\* Every runner that does not throw resolves to a list of arrays.
ListsOfArrays ==
    \A x \in DOMAIN analyzerOut :
        ~analyzerOut[x].threw =>
            /\ HasCycleList(analyzerOut[x])
            /\ \A i \in DOMAIN analyzerOut[x].circular :
                   ~NormalizeThrows(analyzerOut[x].circular[i])

\* C9: an analyzer invocation that throws is swallowed.  No runIntraPackage
\* call is rejected because a runner threw (a rejected call has collected a
\* cycle that is no array); when the runners throw or resolve to lists of
\* arrays, check returns a CheckResult once packages are analysed, and its
\* import issues are those it would return had every failed invocation
\* returned an empty cycle list.
C9_AnalyzerFailureIsolated ==
    /\ \A k \in DOMAIN tasks :
            tasks[k].status = "rejected" =>
                \E i \in DOMAIN tasks[k].allCycles : NormalizeThrows(tasks[k].allCycles[i])
    /\ (pc = "done" /\ tasks # <<>> /\ ListsOfArrays) =>
            /\ result.kind = "result"
            /\ IntraReported = IntraIssuesWhenNoneFails(FailuresAsEmpty(analyzerOut))

C9_Witness ==
    /\ Returned
    /\ Len(tasks) = 2
    /\ LET tools == ToolsOf(config, options)
       IN  /\ Len(tools) = 2
           /\ ~analyzerOut[<<tasks[1].pkg, tools[1]>>].threw
           /\ HasCycleList(analyzerOut[<<tasks[1].pkg, tools[1]>>])
           /\ analyzerOut[<<tasks[1].pkg, tools[1]>>].circular # <<>>
           /\ analyzerOut[<<tasks[1].pkg, tools[2]>>].threw
           /\ analyzerOut[<<tasks[2].pkg, tools[1]>>].threw
           /\ analyzerOut[<<tasks[2].pkg, tools[2]>>].threw
    /\ \E i \in DOMAIN result.issues : result.issues[i].package = tasks[1].pkg
    /\ ~result.success

\* C10: whenever check returns a CheckResult, success is true exactly when
\* the issues list is empty; an issue of any severity makes it false.
C10_SuccessIffNoIssues ==
    Returned => (result.success <=> Len(result.issues) = 0)

C10_Witness ==
    /\ Returned
    /\ Len(result.issues) = 1
    /\ result.issues[1].severity = "low"
    /\ result.success = FALSE

\* The issues of the result that have the given severity.
WithSeverity(severity) == SelectSeq(result.issues, LAMBDA i : i.severity = severity)

\* C11: in every result check returns, stats.total is the length of the
\* issue list, each of critical/high/medium/low is the number of issues of
\* that severity, and total is the sum of the four buckets.
C11_StatsAgreeWithIssues ==
    Returned =>
        /\ result.stats.total = Len(result.issues)
        /\ result.stats.critical = Len(WithSeverity("critical"))
        /\ result.stats.high = Len(WithSeverity("high"))
        /\ result.stats.medium = Len(WithSeverity("medium"))
        /\ result.stats.low = Len(WithSeverity("low"))
        /\ result.stats.total = result.stats.critical + result.stats.high
                                    + result.stats.medium + result.stats.low

C11_Witness ==
    /\ Returned
    /\ result.stats.total = 3
    /\ result.stats.medium = 2
    /\ result.stats.low = 1
    /\ result.issues[3].severity = "low"

\* The deduplicated cycles of a scanned package that no ignoreCycles rule
\* suppresses.
SurvivingIntra(task) == SelectSeq(task.unique, LAMBDA c : ~FileSuppressed(c, task.pkg))

\* The detected package cycles that no ignorePackageCycles set suppresses.
SurvivingInter ==
    IF dpc = "done" THEN SelectSeq(cycles, LAMBDA c : ~SupersetOfIgnored(c)) ELSE <<>>

RECURSIVE SumOfLengths(_)
SumOfLengths(lists) ==
    IF lists = <<>> THEN 0 ELSE Len(Head(lists)) + SumOfLengths(Tail(lists))

IsIssueOfIntra(issue, task, cycle) ==
    /\ issue.type = "circular-import"
    /\ issue.package = task.pkg
    /\ issue.message = <<"Circular import chain: ">> \o Join(cycle, " -> ")

IsIssueOfInter(issue, cycle) ==
    /\ issue.type = "circular-workspace-dep"
    /\ issue.message = <<"Circular workspace dependency: ">> \o Join(cycle, " -> ")
                            \o <<" -> ", cycle[1]>>

\* C12: each surviving cycle becomes exactly one issue.  The number of issues
\* of a returned result is the number of deduplicated, non-ignored cycles of
\* the scanned packages plus the number of non-ignored package cycles; every
\* such cycle has exactly one issue, and every issue is the issue of one.
C12_OneIssuePerSurvivingCycle ==
    Returned =>
        /\ Len(result.issues) =
               SumOfLengths([k \in DOMAIN tasks |-> SurvivingIntra(tasks[k])])
                   + Len(SurvivingInter)
        /\ \A k \in DOMAIN tasks : \A c \in DOMAIN SurvivingIntra(tasks[k]) :
               Cardinality({i \in DOMAIN result.issues :
                   IsIssueOfIntra(result.issues[i], tasks[k],
                                  SurvivingIntra(tasks[k])[c])}) = 1
        /\ \A c \in DOMAIN SurvivingInter :
               Cardinality({i \in DOMAIN result.issues :
                   IsIssueOfInter(result.issues[i], SurvivingInter[c])}) = 1
        /\ \A i \in DOMAIN result.issues :
               \/ \E k \in DOMAIN tasks : \E c \in DOMAIN SurvivingIntra(tasks[k]) :
                      IsIssueOfIntra(result.issues[i], tasks[k],
                                     SurvivingIntra(tasks[k])[c])
               \/ \E c \in DOMAIN SurvivingInter :
                      IsIssueOfInter(result.issues[i], SurvivingInter[c])

C12_Witness ==
    /\ Returned
    /\ Len(tasks) = 2
    /\ Len(tasks[1].allCycles) = 3
    /\ Len(tasks[1].unique) = 2
    /\ Len(tasks[2].unique) = 1
    /\ Len(result.issues) = 3

\* The issues the per-package scans returned, in all.
IntraCount == SumOfLengths([k \in DOMAIN tasks |-> tasks[k].issues])

\* C13: severity is set per category.  Every issue of a per-package scan has
\* type circular-import and the configured intraPackageSeverity (high without
\* configuration); every issue of the package detector has type
\* circular-workspace-dep and the configured interPackageSeverity (critical
\* without configuration): neither depends on the other category's setting.
C13_SeverityPerCategory ==
    Returned =>
        \A i \in DOMAIN result.issues :
            IF i <= IntraCount
            THEN /\ result.issues[i].type = "circular-import"
                 /\ result.issues[i].severity =
                        (IF config.defined THEN config.intraPackageSeverity ELSE "high")
            ELSE /\ result.issues[i].type = "circular-workspace-dep"
                 /\ result.issues[i].severity =
                        (IF config.defined THEN config.interPackageSeverity ELSE "critical")

C13_Witness ==
    /\ Returned
    /\ config.defined
    /\ config.intraPackageSeverity = "critical"
    /\ config.interPackageSeverity = "low"
    /\ IntraCount = 1
    /\ Len(result.issues) = 2
    /\ result.issues[1].severity = "critical"
    /\ result.issues[2].severity = "low"

\* The defaults apply when there is no configuration.
C13_WitnessDefaults ==
    /\ Returned
    /\ ~config.defined
    /\ IntraCount = 1
    /\ Len(result.issues) = 2
    /\ result.issues[1].severity = "high"
    /\ result.issues[2].severity = "critical"

Disabled == config.defined /\ config.enabled = FALSE

\* C14: with enabled = false check short-circuits.  Whatever the workspace
\* and the flags, it never reaches workspace discovery, starts no per-package
\* scan, never calls the package detector, and what it returns is success =
\* true with no issue and all-zero stats.
C14_DisabledShortCircuits ==
    Disabled =>
        /\ pc \in {"start", "done"}
        /\ tasks = <<>>
        /\ dpc = "idle"
        /\ pc = "done" =>
               result = [kind    |-> "result",
                         success |-> TRUE,
                         issues  |-> <<>>,
                         stats   |-> [total |-> 0, critical |-> 0, high |-> 0,
                                      medium |-> 0, low |-> 0]]

C14_Witness ==
    /\ Disabled
    /\ pc = "done"
    /\ workspace = WsPair
    /\ options.all /\ options.intra /\ options.inter
    /\ analyzerOut[<<"@p/a", "dpdm">>].circular # <<>>
    /\ result.success

\* The stream's first call is the deduplicator and no later one is.
DeduplicatedFirst(calls) ==
    /\ calls # <<>>
    /\ calls[1].fn = "deduplicateCycles"
    /\ \A i \in DOMAIN calls : i > 1 => calls[i].fn # "deduplicateCycles"

\* Every cycle handed to the classifier went through the ignore filter before.
FilteredBeforeClassified(calls, filter) ==
    \A i \in DOMAIN calls :
        calls[i].fn = "issues.push" =>
            \E j \in 1..(i - 1) : calls[j].fn = filter /\ calls[j].arg = calls[i].arg

\* The issues of the scans, then those of the detector, make up the result.
MergedIntoOneResult ==
    Returned =>
        result.issues = Flat([k \in DOMAIN tasks |-> tasks[k].issues])
                            \o InterIssuesOf(cycles, config)

InterScanned == pc \in {"return", "done"} /\ dpc = "done"

IntraStarted ==
    /\ IntraWanted
    /\ pc \in {"await", "inter", "detect", "return"} \/ (Returned /\ ~Disabled)

ScannedPackages == [k \in DOMAIN tasks |-> tasks[k].pkg]

CommandGlobs == options.packages

IncludeGlobs == IF config.defined THEN config.includePackages ELSE <<>>

ExcludeGlobs == IF config.defined THEN config.excludePackages ELSE <<>>

MatchesSome(name, globs) == \E g \in DOMAIN globs : minimatch(name, globs[g])

\* C16: with a non-empty command-level glob list the scanned packages are
\* exactly the workspace packages matching one of its globs, whatever the
\* configuration includes or excludes; otherwise they are the packages
\* matching some include glob (all packages without include globs) that
\* match no exclude glob.
C16_PackageSelection ==
    IntraStarted =>
        LET selected ==
                SelectSeq(workspace, LAMBDA p :
                    IF CommandGlobs # <<>>
                    THEN MatchesSome(p.name, CommandGlobs)
                    ELSE /\ IncludeGlobs = <<>> \/ MatchesSome(p.name, IncludeGlobs)
                         /\ ~MatchesSome(p.name, ExcludeGlobs))
        IN  ScannedPackages = [k \in DOMAIN selected |-> selected[k].name]

\* A command-level list scans a package the configuration excludes and does
\* not include.
C16_Witness ==
    /\ Returned
    /\ CommandGlobs = <<"@p/*">>
    /\ IncludeGlobs = <<"c">>
    /\ ExcludeGlobs = <<"@p/a">>
    /\ ScannedPackages = <<"@p/a", "@p/b">>
    /\ Len(result.issues) = 2

\* Without a command-level list, exclude wins over include.
C16_WitnessExcludeWins ==
    /\ Returned
    /\ CommandGlobs = <<>>
    /\ IncludeGlobs = <<"@p/*", "c">>
    /\ ExcludeGlobs = <<"@p/a">>
    /\ ScannedPackages = <<"@p/b", "c">>

\* The configuration switches nothing off.
NothingSwitchedOff ==
    ~config.defined \/ (config.enabled /\ config.intraPackage /\ config.interPackage)

\* Both scans ran: one settled scan per selected package, and the detector.
BothScansRan ==
    /\ dpc = "done"
    /\ LET selected == filterPackages(workspace, options.packages, config)
       IN  ScannedPackages = [k \in DOMAIN selected |-> selected[k].name]
    /\ \A k \in DOMAIN tasks : tasks[k].status = "fulfilled"

NoInterScan == dpc = "idle" /\ (Returned => InterReported = <<>>)

NoIntraScan == tasks = <<>> /\ (Returned => IntraReported = <<>>)

\* C17: the restriction flags select the scans.  With the intra flag set and
\* the inter flag unset the package detector never runs and the result has no
\* circular-workspace-dep issue; with the inter flag set and the intra flag
\* unset no scan is started and the result has no circular-import issue; with
\* neither flag (and nothing switched off in the configuration) both scans
\* have run when check returns: one scan per selected package, and the
\* detector.
C17_RestrictionFlagsSelectScans ==
    /\ (options.intra /\ ~options.inter) => NoInterScan
    /\ (options.inter /\ ~options.intra) => NoIntraScan
    /\ (~options.intra /\ ~options.inter /\ NothingSwitchedOff /\ Returned)
            => BothScansRan

\* C17 amended: the same for calls that do not set the all flag together
\* with a restriction flag.
C17_RestrictionFlagsWithoutAll ==
    /\ (options.intra /\ ~options.inter /\ ~options.all) => NoInterScan
    /\ (options.inter /\ ~options.intra /\ ~options.all) => NoIntraScan
    /\ (~options.intra /\ ~options.inter /\ NothingSwitchedOff /\ Returned)
            => BothScansRan

C17_Witness ==
    /\ Returned
    /\ options.intra /\ ~options.inter /\ ~options.all
    /\ workspace = WsPair
    /\ NothingSwitchedOff
    /\ Len(tasks) = 2
    /\ Len(result.issues) = 1
    /\ result.issues[1].type = "circular-import"

C17_WitnessInterOnly ==
    /\ Returned
    /\ options.inter /\ ~options.intra /\ ~options.all
    /\ workspace = WsPair
    /\ NothingSwitchedOff
    /\ analyzerOut[<<"@p/a", "dpdm">>].circular # <<>>
    /\ Len(result.issues) = 1
    /\ result.issues[1].type = "circular-workspace-dep"

C17_WitnessNeither ==
    /\ Returned
    /\ ~options.inter /\ ~options.intra /\ ~options.all
    /\ workspace = WsPair
    /\ NothingSwitchedOff
    /\ Len(IntraReported) = 1
    /\ Len(InterReported) = 1

\* C18: while the per-package scans are running the issue list of check is
\* not written.  A step taken during the scans either leaves it unchanged or
\* is the merge: every scan has settled, and the list is extended by the
\* issues of all packages together, in package order.
C18_IssuesWrittenOnlyByMerge ==
    [][pc = "await" =>
          \/ issues' = issues
          \/ /\ \A k \in DOMAIN tasks : tasks[k].status = "fulfilled"
             /\ tasks' = tasks
             /\ pc' = "inter"
             /\ issues' = issues \o Flat([k \in DOMAIN tasks |-> tasks[k].issues])]_vars

\* One scan has settled with issues, the other has collected cycles and is
\* still awaiting a runner: the issue list is still empty.
C18_Witness ==
    /\ pc = "await"
    /\ Len(tasks) = 2
    /\ tasks[2].status = "fulfilled" /\ tasks[2].issues # <<>>
    /\ tasks[1].status = "pending" /\ tasks[1].allCycles # <<>>
    /\ issues = <<>>

\* A cycle that is a non-empty sequence of file identifiers.
ProperCycle(cycle) == cycle # <<>> /\ ~NormalizeThrows(cycle)

\* The outcomes with every output that has no usable cycle list replaced by
\* an empty list, and every cycle that is no proper cycle left out.
MalformedAsNothing(out) ==
    [x \in DOMAIN out |->
        IF out[x].threw \/ ~HasCycleList(out[x]) THEN Returns(<<>>)
        ELSE Returns(SelectSeq(out[x].circular, ProperCycle))]

\* C19: malformed or empty analyzer output contributes zero cycles.  Once
\* packages are analysed check returns a result, and its import issues are
\* those of the proper cycles alone: an empty list, an output without a cycle
\* list and a cycle that is no non-empty sequence of files produce no issue.
C19_MalformedOutputTolerated ==
    (pc = "done" /\ tasks # <<>>) =>
        /\ result.kind = "result"
        /\ IntraReported = IntraIssuesWhenNoneFails(MalformedAsNothing(analyzerOut))

\* The cycle traversed the other way.
Reverse(c) == [i \in DOMAIN c |-> c[Len(c) + 1 - i]]

DistinctElements(c) == Cardinality(Range(c)) = Len(c)

\* C20: deduplication is directional.  A cycle and its reverse that are not
\* rotations of one another get different keys, and deduplicateCycles keeps
\* both; every cycle of three or more distinct elements gets a key different
\* from its reverse's.
C20_ReverseKeptApart ==
    pc = "deduped" =>
        /\ \A i, j \in DOMAIN rawCycles :
               (rawCycles[j] = Reverse(rawCycles[i])
                    /\ ~IsRotation(rawCycles[i], rawCycles[j])) =>
                   /\ normalizeCycle(rawCycles[i]) # normalizeCycle(rawCycles[j])
                   /\ \E u, v \in DOMAIN unique :
                          /\ u # v
                          /\ normalizeCycle(unique[u]) = normalizeCycle(rawCycles[i])
                          /\ normalizeCycle(unique[v]) = normalizeCycle(rawCycles[j])
                   /\ Len(rawCycles) = 2 => unique = rawCycles
        /\ \A i \in DOMAIN rawCycles :
               (Len(rawCycles[i]) >= 3 /\ DistinctElements(rawCycles[i])) =>
                   normalizeCycle(rawCycles[i]) # normalizeCycle(Reverse(rawCycles[i]))

C20_Witness ==
    /\ pc = "deduped"
    /\ Len(rawCycles) = 2
    /\ Len(rawCycles[1]) = 3 /\ DistinctElements(rawCycles[1])
    /\ rawCycles[2] = Reverse(rawCycles[1])
    /\ unique = rawCycles

\* A two-element cycle and its reverse are rotations and collapse.
C20_WitnessPairCollapses ==
    /\ pc = "deduped"
    /\ rawCycles = <<CycAB, CycBA>>
    /\ unique = <<CycAB>>

(***************************************************************************)
(* The traversal, step by step.                                            *)
(***************************************************************************)
\* The neighbour the traversal is looking at is GRAY: a back edge from the
\* node on top of the stack to that neighbour.
AtBackEdge == HasNeighbor /\ color[TopNeighbor] = GRAY

\* The path stack from a position of n through its top.
StackFrom(n) ==
    LET k == CHOOSE k \in DOMAIN path : path[k] = n
    IN  SubSeq(path, k, Len(path))

\* s is a simple directed cycle of the built graph.
SimpleCycle(s) ==
    /\ s # <<>>
    /\ Cardinality(Range(s)) = Len(s)
    /\ \A i \in DOMAIN s : s[i] \in DOMAIN adj
    /\ \A i \in DOMAIN s : s[(i % Len(s)) + 1] \in Range(adj[s[i]])

\* C21: one witness cycle per back edge and nothing else.  A step taken
\* while the neighbour under inspection is GRAY appends exactly one cycle,
\* the path stack from the neighbour's position through the top, which starts
\* with the back edge's target and ends with its source; every other step
\* (a BLACK or WHITE neighbour, a call, a return) leaves the cycle list alone.
C21_OneCyclePerBackEdge ==
    [][/\ AtBackEdge =>
            /\ TopNeighbor \in Range(path)
            /\ cycles' = Append(cycles, StackFrom(TopNeighbor))
            /\ Head(StackFrom(TopNeighbor)) = TopNeighbor
            /\ Last(StackFrom(TopNeighbor)) = Last(stack).node
       /\ ~AtBackEdge => cycles' = cycles]_vars

\* A finished run that reported a cycle and left a simple cycle of the graph
\* unreported (a -> b -> c -> a is met first, a -> c -> a ends on a BLACK c).
C21_Witness ==
    /\ dpc = "done"
    /\ cycles # <<>>
    /\ \E s \in CyclesUpTo(DOMAIN adj, 2) :
          /\ SimpleCycle(s)
          /\ \A i \in DOMAIN cycles : ~IsRotation(cycles[i], s)

\* The nodes of one colour.
Coloured(c) == {n \in DOMAIN color : color[n] = c}

\* The path stack is the GRAY nodes, each once, each with an edge to the next,
\* and it is the chain of the dfs calls in progress, oldest first.
PathIsGrayChain ==
    Built =>
        /\ Range(path) = Coloured(GRAY)
        /\ Cardinality(Range(path)) = Len(path)
        /\ \A i \in 1..(Len(path) - 1) : path[i + 1] \in Range(adj[path[i]])
        /\ path = [i \in DOMAIN stack |-> stack[i].node]

\* C22: at every point of the traversal the path stack holds exactly the GRAY
\* nodes, each once, in the order they were entered, each with an edge to the
\* next; a colour only moves WHITE to GRAY to BLACK; a node that turns GRAY is
\* pushed on top of the stack at that step, a node that turns BLACK is the top
\* of the stack and is popped at that step, and nothing else changes the stack.
C22_PathStackIsGrayChain ==
    [][/\ PathIsGrayChain /\ PathIsGrayChain'
       /\ Built =>
            /\ DOMAIN color' = DOMAIN color
            /\ \A n \in DOMAIN color :
                  \/ color'[n] = color[n]
                  \/ /\ color[n] = WHITE /\ color'[n] = GRAY
                     /\ path' = Append(path, n)
                  \/ /\ color[n] = GRAY /\ color'[n] = BLACK
                     /\ path = Append(path', n)
            /\ color' = color => path' = path]_vars

\* Three nested calls in progress after another node was finished.
C22_Witness ==
    /\ dpc = "scan"
    /\ Len(path) = 3
    /\ Coloured(BLACK) # {}
    /\ Coloured(WHITE) # {}

\* The configuration without its package selection.
WithoutSelection(cfg) ==
    IF cfg.defined
    THEN [cfg EXCEPT !.includePackages = <<>>, !.excludePackages = <<>>]
    ELSE cfg

\* What the detector returns for the whole of WsKnot.
KnotCycles == <<<<"@p/a">>, <<"@p/a", "@p/b", "c">>>>

\* C23: package selection applies to the intra-package scan only.  Whenever
\* the detector has been called, its argument is the full workspace package
\* list, whatever the command-level globs and the include and exclude settings
\* are; the inter-package issues of the result are those of the detected
\* cycles under the configuration without its selection, so that on the
\* three-package workspace every selection gives the same two issues.
C23_InterScanIgnoresSelection ==
    /\ dpc # "idle" => packages = workspace
    /\ Returned /\ dpc = "done" =>
          /\ InterReported = InterIssuesOf(cycles, WithoutSelection(config))
          /\ workspace = WsKnot =>
                InterReported = InterIssuesOf(KnotCycles, WithoutSelection(config))

\* Only c is scanned for imports; both package cycles are reported, the one
\* through the packages left out included.
C23_Witness ==
    /\ Returned
    /\ dpc = "done"
    /\ CommandGlobs = <<"c">>
    /\ ExcludeGlobs = <<"@p/a">>
    /\ ScannedPackages = <<"c">>
    /\ Len(InterReported) = 2
    /\ Len(IntraReported) = 1

\* Some package named `from` declares `to` with a workspace-protocol
\* specifier in one of its two maps.
DeclaredWsEdge(from, to) ==
    \E i \in DOMAIN packages :
        /\ packages[i].name = from
        /\ \/ DeclaresWs(packages[i].dependencies, to)
           \/ DeclaresWs(packages[i].devDependencies, to)

\* C24: every reported cycle is a real simple cycle of the workspace graph.
\* It is non-empty, names no package twice, names packages of the input only,
\* every element has a workspace-protocol edge to the next one and the last
\* element has one back to the first.
C24_ReportedCyclesAreSimpleCycles ==
    Built =>
        \A k \in DOMAIN cycles :
            LET s == cycles[k]
            IN  /\ SimpleCycle(s)
                /\ Range(s) \subseteq InputNames
                /\ \A i \in DOMAIN s : DeclaredWsEdge(s[i], s[(i % Len(s)) + 1])

\* A finished run that returned a self-loop and a three-package cycle.
C24_Witness ==
    /\ dpc = "done"
    /\ \E k \in DOMAIN cycles : Len(cycles[k]) = 1
    /\ \E k \in DOMAIN cycles : Len(cycles[k]) = 3

\* The strongly connected component of n in the built graph.
Component(n) == {m \in ReachFrom(Edges, {n}) : n \in ReachFrom(Edges, {m})}

\* Some reported cycle lies inside the set S.
ReportedInside(S) ==
    \E k \in DOMAIN cycles : cycles[k] # <<>> /\ Range(cycles[k]) \subseteq S

\* C25: no cyclic region is missed.  When the built graph has a directed
\* cycle the returned list is non-empty, and for every package on a cycle (a
\* self-loop included) some returned cycle lies inside that package's
\* strongly connected component; the inputs are every package order.
C25_EveryCyclicComponentReported ==
    dpc = "done" =>
        /\ ~Acyclic(Edges) => cycles # <<>>
        /\ \A n \in DOMAIN adj :
              OnCycle(Edges, n) => ReportedInside(Component(n))

\* Two cyclic components, one of them a single package with a self-loop, the
\* other one reachable from it.
C25_Witness ==
    /\ dpc = "done"
    /\ \E n, m \in DOMAIN adj :
          /\ OnCycle(Edges, n) /\ Component(n) = {n}
          /\ OnCycle(Edges, m) /\ Cardinality(Component(m)) = 2
          /\ m \in ReachFrom(Edges, {n})
          /\ Len(cycles) = 2

\* Every workspace graph on up to MaxPkgs packages, in every package order and
\* every neighbour order.
InitInterLive ==
    /\ InitAnyGraph
    /\ DetectStart
    /\ CheckOff

\* detectInterPackageCycles is synchronous: once called it runs its next
\* statement until it returns.
SpecInterLive == InitInterLive /\ [][DetectNext]_vars /\ WF_vars(DetectNext)

\* C26: the detector terminates on every package list, cyclic or not.  Every
\* run reaches its return; on return every package of the input is BLACK and
\* the path stack is empty; a package is entered (pushed on the path) only
\* while it is WHITE and is never WHITE again, so that each package is entered
\* exactly once.
C26_TerminatesAllBlack ==
    /\ <>(dpc = "done")
    /\ [](dpc = "done" =>
            /\ path = <<>>
            /\ stack = <<>>
            /\ DOMAIN color = InputNames
            /\ \A n \in InputNames : color[n] = BLACK)
    /\ [][Built =>
            /\ Len(path') > Len(path) =>
                  /\ path' = Append(path, Last(path'))
                  /\ color[Last(path')] = WHITE
                  /\ color'[Last(path')] = GRAY
            /\ \A n \in DOMAIN color :
                  /\ color[n] # WHITE => color'[n] # WHITE
                  /\ color[n] # color'[n] /\ color'[n] = GRAY =>
                        path' = Append(path, n)]_vars

\* A returned run over three packages on one cycle.
C26_Witness ==
    /\ dpc = "done"
    /\ Len(packages) = 3
    /\ \A n \in InputNames : OnCycle(Edges, n) /\ color[n] = BLACK
    /\ path = <<>>

\* A returned run over three packages without any cycle.
C26_WitnessAcyclic ==
    /\ dpc = "done"
    /\ Len(packages) = 3
    /\ Edges # {}
    /\ Acyclic(Edges)
    /\ \A n \in InputNames : color[n] = BLACK

\* The names of the selected packages, in the order of the selected list.
SelectedNames ==
    LET selected == filterPackages(workspace, options.packages, config)
    IN  [k \in DOMAIN selected |-> selected[k].name]

PositionOf(name) == CHOOSE k \in DOMAIN SelectedNames : SelectedNames[k] = name

\* C27: the result does not depend on the order in which the per-package
\* scans complete.  In every returned result, whatever the interleaving of the
\* runner completions was, the import issues come first and the workspace
\* issues after them; the import issues are grouped by package in the order of
\* the selected package list; they are exactly the issues computed from the
\* runners' reports taken package by package and, within a package, tool by
\* tool in configured order; the workspace issues are those of the detected
\* cycles in detection order.
C27_ResultIndependentOfCompletionOrder ==
    (Returned /\ ~Disabled) =>
        /\ result.issues = IntraReported \o InterReported
        /\ \A i, j \in DOMAIN IntraReported :
              /\ IntraReported[i].package \in Range(SelectedNames)
              /\ i < j => PositionOf(IntraReported[i].package)
                              <= PositionOf(IntraReported[j].package)
        /\ ListsOfArrays =>
              IntraReported =
                  IF IntraWanted
                  THEN IntraIssuesWhenNoneFails(FailuresAsEmpty(analyzerOut))
                  ELSE <<>>
        /\ InterReported =
              IF InterWanted THEN InterIssuesOf(cycles, config) ELSE <<>>

\* Two packages and two tools in the order madge, dpdm: the first package's
\* issues are madge's cycle, then dpdm's new one, then the second package's.
C27_Witness ==
    /\ Returned
    /\ ToolsOf(config, options) = <<"madge", "dpdm">>
    /\ IntraReported = <<IntraIssue("high", "@p/a", CycAB),
                         IntraIssue("high", "@p/a", CycC),
                         IntraIssue("high", "@p/b", CycAB)>>

\* The second package's scan has finished while the first one still awaits
\* its first runner.
C27_WitnessLaterFinishesFirst ==
    /\ pc = "await"
    /\ Len(tasks) = 2
    /\ tasks[2].status = "fulfilled" /\ tasks[2].issues # <<>>
    /\ tasks[1].status = "pending" /\ tasks[1].t = 1
    /\ analyzerOut[<<tasks[1].pkg, "dpdm">>] = Returns(<<CycAB>>)

\* Import issues of two packages followed by the workspace issues.
C27_WitnessInterLast ==
    /\ Returned
    /\ Len(IntraReported) = 3
    /\ Len(InterReported) = 2

\* The result has an import issue of the task's package for the cycle c or
\* for the rotation of c the package's own deduplication kept.
ReportedFor(task, c) ==
    \E i \in DOMAIN IntraReported :
        \E r \in Range(task.allCycles) :
            IsRotation(r, c) /\ IsIssueOfIntra(IntraReported[i], task, r)

\* C28: deduplication is scoped to one package.  When two different packages
\* report the same cycle, or cycles that are rotations of each other, each of
\* the two packages whose ignore rules do not suppress it has its own issue
\* for it in the result, carrying that package's name.
C28_DedupScopedToPackage ==
    Returned =>
        \A k, l \in DOMAIN tasks :
            k # l =>
                \A c \in Range(tasks[k].allCycles), d \in Range(tasks[l].allCycles) :
                    (IsRotation(c, d) /\ ~FileSuppressed(c, tasks[k].pkg)) =>
                        ReportedFor(tasks[k], c)

\* Two packages report the identical cycle: two issues, one per package.
C28_Witness ==
    /\ Returned
    /\ IntraReported = <<IntraIssue("high", "@p/a", CycAB),
                         IntraIssue("high", "c", CycAB)>>

\* Two packages report rotations of one cycle: each keeps its own.
C28_WitnessRotation ==
    /\ Returned
    /\ \E i, j \in DOMAIN IntraReported :
          /\ IntraReported[i] = IntraIssue("high", "@p/a", CycAB)
          /\ IntraReported[j] = IntraIssue("high", "@p/b", CycBA)

\* C29: the detector never reports a cycle twice.  At every point of every
\* run, over every package list in every order, no two entries of the cycle
\* list are equal or rotations of each other.
C29_NoCycleReportedTwice ==
    Built =>
        \A i, j \in DOMAIN cycles :
            i < j => ~IsRotation(cycles[i], cycles[j])

\* A returned list of four cycles, two of them through the same two packages
\* of a longer one.
C29_Witness ==
    /\ dpc = "done"
    /\ Len(cycles) >= 4
    /\ \E i, j \in DOMAIN cycles :
          /\ i # j
          /\ Len(cycles[i]) = 3
          /\ Len(cycles[j]) = 2
          /\ Range(cycles[j]) \subseteq Range(cycles[i])

InterSwitchedOff == config.defined /\ config.interPackage = FALSE

IntraSwitchedOff == config.defined /\ config.intraPackage = FALSE

\* C30: the configuration's scan switches win over the command's flags.  With
\* interPackage = false the detector is never called and the result has no
\* circular-workspace-dep issue, whatever the flags are; with
\* intraPackage = false no package scan is started, so no analyzer is invoked,
\* and the result has no circular-import issue, whatever the flags are.
C30_ConfigSwitchesWin ==
    /\ InterSwitchedOff =>
            /\ dpc = "idle"
            /\ interCalls = <<>>
            /\ Returned => InterReported = <<>>
    /\ IntraSwitchedOff =>
            /\ tasks = <<>>
            /\ Returned => IntraReported = <<>>

\* check --all --inter on a workspace with a package cycle, interPackage =
\* false: only the import issues are returned.
C30_Witness ==
    /\ Returned /\ ~Disabled
    /\ InterSwitchedOff /\ ~IntraSwitchedOff
    /\ options.all /\ options.inter
    /\ workspace = WsPair
    /\ IntraReported # <<>>
    /\ InterReported = <<>>

\* check --all --intra with analyzers that would report cycles,
\* intraPackage = false: only the workspace issue is returned.
C30_WitnessIntraOff ==
    /\ Returned /\ ~Disabled
    /\ IntraSwitchedOff /\ ~InterSwitchedOff
    /\ options.all /\ options.intra
    /\ \E x \in DOMAIN analyzerOut :
          HasCycleList(analyzerOut[x]) /\ analyzerOut[x].circular # <<>>
    /\ IntraReported = <<>>
    /\ Len(InterReported) = 1

====
